---- MODULE Spec2Model ----
(***************************************************************************)
(* The DDPG agent of agents/ddpg.py (class Agent) and the way               *)
(* run_mujoco.py drives it: construction, the train/eval flag, and one      *)
(* episode of Agent.run with its loop iterations and its Learning Step      *)
(* (train_model).                                                           *)
(*                                                                          *)
(* Abstractions.  Actions are integers in units of 1/Unit, so that the      *)
(* tanh range [-1, 1] of the policy network is -Unit..Unit and act_limit    *)
(* can lie below, at or above it.  A parameter vector is the sequence of    *)
(* gradients its optimizer has applied since construction, a gradient       *)
(* being the set of losses whose backward pass accumulated into .grad.      *)
(* A loss value is abstracted to the agent whose Learning Step computed     *)
(* it, a transition to the value of the step counter when it was            *)
(* collected.  Rewards and observations are left out.                       *)
(***************************************************************************)
EXTENDS Integers, Sequences, FiniteSets

\* ---- bounds of the model ----
MaxInitSteps == 1
MaxStartSteps == 1
MaxBatch == 2
MaxBuffer == 2
MaxActLimit == 2
Unit == 2
MaxNoise == 1
MaxEpisode == 2
MaxEnvSteps == 3

AgentIds == {1, 2}
MainNets == {"policy", "qf"}
EnvKinds == {"done_first", "never_done", "free"}
NoAction == Unit + MaxNoise + MaxActLimit + 1

VARIABLES
  kwargs,         \* keyword arguments of the Agent(...) call site
  constructed,    \* agents whose __init__ has run
  usesDefault,    \* agent was built with the default policy_losses/qf_losses/logger
  steps,          \* self.steps
  eval_mode,      \* self.eval_mode
  replay_buffer,  \* self.replay_buffer
  nets,           \* the four networks' parameters and the .grad of the main ones
  policy_losses,  \* list objects, by owner (0 is the default made at def time)
  qf_losses,
  logger,
  pc,             \* position of the single control flow
  self,           \* the agent whose run() is executing
  max_step,       \* args.max_step, the argument of every run()
  step_number, done,
  action,         \* the action passed to env.step in this loop iteration
  action_src,     \* where that action came from
  envKind,        \* how the environment (self.env) answers done
  envSteps,       \* env.step calls made in this episode
  ret,            \* step_number returned by run, -1 before it returns
  trainEnvSteps,  \* per agent, env.step calls made in training mode
  clock           \* env.step calls made by the whole process

vars == <<kwargs, constructed, usesDefault, steps, eval_mode, replay_buffer, nets,
          policy_losses, qf_losses, logger, pc, self, max_step, step_number, done,
          action, action_src, envKind, envSteps, ret, trainEnvSteps, clock>>

Min(a, b) == IF a < b THEN a ELSE b
Max(a, b) == IF a > b THEN a ELSE b

\* ---- Experience store (agents/common/buffers.py) ----
NewBuffer(cap) == [buf |-> [i \in 1..cap |-> 0], ptr |-> 0, size |-> 0, max_size |-> cap]

BufferAdd(b, t) ==
  [b EXCEPT !.buf[b.ptr + 1] = t,
            !.ptr = (b.ptr + 1) % b.max_size,
            !.size = Min(b.size + 1, b.max_size)]

\* ---- Target synchronizer (agents/common/utils.py) ----
HardTargetUpdate(main) == <<Len(main)>>

SoftTargetUpdate(main, target) == Append(target, Len(main))

\* ---- Agent.__init__ ----
\* (variant: the steps argument is ignored and the counter starts at 0)
InitStepsZero(k) == 0

InitSteps(k) == k.steps

NewNets ==
  [params |-> [n \in MainNets |-> <<>>],
   grad   |-> [n \in MainNets |-> {}],
   target |-> [n \in MainNets |-> HardTargetUpdate(<<>>)]]

PolicyOptimizerParams == {"policy"}

QfOptimizerParams == {"qf"}

ListOf(a) == IF usesDefault[a] THEN 0 ELSE a

Construct(a, dflt) ==
  /\ pc = "idle"
  /\ a \notin constructed
  /\ \A b \in AgentIds : b < a => b \in constructed
  /\ constructed' = constructed \cup {a}
  /\ usesDefault' = [usesDefault EXCEPT ![a] = dflt]
  /\ steps' = [steps EXCEPT ![a] = InitSteps(kwargs)]
  /\ eval_mode' = [eval_mode EXCEPT ![a] = FALSE]
  /\ replay_buffer' = [replay_buffer EXCEPT ![a] = NewBuffer(kwargs.buffer_size)]
  /\ nets' = [nets EXCEPT ![a] = NewNets]
  /\ UNCHANGED <<kwargs, policy_losses, qf_losses, logger, pc, self, max_step,
                 step_number, done, action, action_src, envKind, envSteps, ret,
                 trainEnvSteps, clock>>

\* ---- run_mujoco.main: agent.eval_mode = False / True ----
SetEvalMode(a, b) ==
  /\ pc = "idle"
  /\ a \in constructed
  /\ eval_mode[a] # b
  /\ eval_mode' = [eval_mode EXCEPT ![a] = b]
  /\ UNCHANGED <<kwargs, constructed, usesDefault, steps, replay_buffer, nets,
                 policy_losses, qf_losses, logger, pc, self, max_step, step_number,
                 done, action, action_src, envKind, envSteps, ret, trainEnvSteps,
                 clock>>

\* ---- Agent.select_action ----
Clip(x, lo, hi) == Max(lo, Min(x, hi))

\* The extremes and the centre of a symmetric range stand for the range.
Ends(limit) == {0 - limit, 0, limit}

PolicyOut == Ends(Unit)

NoiseOut == Ends(MaxNoise)

SelectAction(raw, noise, limit) == Clip(raw + noise, 0 - limit, limit)

\* ---- Agent.run ----
\* (variant: the loop condition tests the step budget only)
LoopCondNoDone(d, sn, ms) == ~(sn = ms)

\* (variant: the budget test is "step_number > max_step")
LoopCondPast(d, sn, ms) == ~(d \/ sn > ms)

LoopCond(d, sn, ms) == ~(d \/ sn = ms)

\* (variant: the counter is incremented before the eval_mode test)
StepsAlways(s, ev) == s + 1

StepsAfter(s, ev) == IF ev THEN s ELSE s + 1

\* (variant: the warm-up test is "steps >= start_steps")
UsePolicyEarly(s, start) == s >= start

UsePolicy(s, start) == s > start

TrainGate(s, batch) == s > batch

DoneOut(kind, sn) ==
  CASE kind = "done_first" -> IF sn = 0 THEN {TRUE} ELSE BOOLEAN
    [] kind = "never_done" -> {FALSE}
    [] OTHER -> BOOLEAN

RunBegin(a) ==
  /\ pc = "idle"
  /\ a \in constructed
  /\ max_step >= 0 => clock + max_step <= MaxEnvSteps
  /\ pc' = "loop"
  /\ self' = a
  /\ step_number' = 0
  /\ done' = FALSE
  /\ action' = NoAction
  /\ action_src' = "none"
  /\ envSteps' = 0
  /\ ret' = 0 - 1
  /\ UNCHANGED <<kwargs, max_step, envKind, constructed, usesDefault, steps, eval_mode,
                 replay_buffer, nets, policy_losses, qf_losses, logger, trainEnvSteps,
                 clock>>

EvalStep(d) ==
  /\ eval_mode[self]
  /\ \E raw \in PolicyOut :
        /\ action' = raw
        /\ action_src' = "policy"
  /\ done' = d
  /\ envSteps' = envSteps + 1
  /\ clock' = clock + 1
  /\ steps' = [steps EXCEPT ![self] = StepsAfter(@, TRUE)]
  /\ pc' = "tail"
  /\ UNCHANGED <<replay_buffer, trainEnvSteps>>

TrainStep(d) ==
  /\ ~eval_mode[self]
  /\ LET s == StepsAfter(steps[self], FALSE) IN
       /\ steps' = [steps EXCEPT ![self] = s]
       /\ IF UsePolicy(s, kwargs.start_steps)
            THEN \E raw \in PolicyOut, noise \in NoiseOut :
                    /\ action' = SelectAction(raw, noise, kwargs.act_limit)
                    /\ action_src' = "select_action"
            ELSE \E smp \in Ends(kwargs.act_limit) :
                    /\ action' = smp
                    /\ action_src' = "sample"
       /\ done' = d
       /\ envSteps' = envSteps + 1
       /\ clock' = clock + 1
       /\ trainEnvSteps' = [trainEnvSteps EXCEPT ![self] = @ + 1]
       /\ replay_buffer' = [replay_buffer EXCEPT ![self] = BufferAdd(@, s)]
       /\ pc' = IF TrainGate(s, kwargs.batch_size) THEN "train" ELSE "tail"

RunStep ==
  /\ pc = "loop"
  /\ LoopCond(done, step_number, max_step)
  /\ clock < MaxEnvSteps
  /\ \E d \in DoneOut(envKind, step_number) : EvalStep(d) \/ TrainStep(d)
  /\ UNCHANGED <<kwargs, constructed, usesDefault, eval_mode, nets, policy_losses,
                 qf_losses, logger, self, max_step, step_number, envKind, ret>>

\* ---- Agent.train_model ----
\* (variant: zero_grad is left out)
ZeroGradNone(n, group) == n

ZeroGrad(n, group) ==
  [n EXCEPT !.grad = [k \in MainNets |-> IF k \in group THEN {} ELSE @[k]]]

Backward(n, loss) ==
  [n EXCEPT !.grad = [k \in MainNets |->
     CASE loss = "qf_loss" -> IF k = "qf" THEN @[k] \cup {loss} ELSE @[k]
       [] OTHER -> @[k] \cup {loss}]]

OptimizerStep(n, group) ==
  [n EXCEPT !.params = [k \in MainNets |->
     IF k \in group THEN Append(@[k], n.grad[k]) ELSE @[k]]]

UpdateQf(n) ==
  OptimizerStep(Backward(ZeroGrad(n, QfOptimizerParams), "qf_loss"), QfOptimizerParams)

UpdatePolicy(n) ==
  OptimizerStep(Backward(ZeroGrad(n, PolicyOptimizerParams), "policy_loss"),
                PolicyOptimizerParams)

SoftUpdates(n) ==
  [n EXCEPT !.target = [k \in MainNets |-> SoftTargetUpdate(n.params[k], @[k])]]

\* (variant: the loss is not appended)
SaveLossNot(hist, obj, who) == hist

SaveLoss(hist, obj, who) == [hist EXCEPT ![obj] = Append(@, who)]

TrainModel ==
  /\ pc = "train"
  /\ nets' = [nets EXCEPT ![self] = SoftUpdates(UpdatePolicy(UpdateQf(@)))]
  /\ policy_losses' = SaveLoss(policy_losses, ListOf(self), self)
  /\ qf_losses' = SaveLoss(qf_losses, ListOf(self), self)
  /\ pc' = "tail"
  /\ UNCHANGED <<kwargs, constructed, usesDefault, steps, eval_mode, replay_buffer,
                 logger, self, max_step, step_number, done, action, action_src,
                 envKind, envSteps, ret, trainEnvSteps, clock>>

\* ---- Agent.run, end of a loop iteration and the return ----
RunStepEnd ==
  /\ pc = "tail"
  /\ step_number' = step_number + 1
  /\ action' = NoAction
  /\ action_src' = "none"
  /\ pc' = "loop"
  /\ UNCHANGED <<kwargs, constructed, usesDefault, steps, eval_mode, replay_buffer,
                 nets, policy_losses, qf_losses, logger, self, max_step, done,
                 envKind, envSteps, ret, trainEnvSteps, clock>>

MeanOf(l) == [over |-> Len(l)]

RunReturn ==
  /\ pc = "loop"
  /\ ~LoopCond(done, step_number, max_step)
  /\ logger' = [logger EXCEPT ![ListOf(self)] =
                  [by |-> self,
                   LossPi |-> MeanOf(policy_losses[ListOf(self)]),
                   LossQ |-> MeanOf(qf_losses[ListOf(self)])]]
  /\ ret' = step_number
  /\ step_number' = 0
  /\ done' = FALSE
  /\ pc' = "idle"
  /\ UNCHANGED <<kwargs, constructed, usesDefault, steps, eval_mode, replay_buffer,
                 nets, policy_losses, qf_losses, self, max_step, action, action_src,
                 envKind, envSteps, trainEnvSteps, clock>>

Objs == AgentIds \cup {0}

NoLog == [by |-> 0, LossPi |-> MeanOf(<<>>), LossQ |-> MeanOf(<<>>)]

Init ==
  /\ kwargs \in [steps : 0..MaxInitSteps, start_steps : 0..MaxStartSteps,
                 batch_size : 1..MaxBatch, buffer_size : 1..MaxBuffer,
                 act_limit : 1..MaxActLimit]
  /\ constructed = {}
  /\ usesDefault = [a \in AgentIds |-> FALSE]
  /\ steps = [a \in AgentIds |-> 0]
  /\ eval_mode = [a \in AgentIds |-> FALSE]
  /\ replay_buffer = [a \in AgentIds |-> NewBuffer(1)]
  /\ nets = [a \in AgentIds |-> NewNets]
  /\ policy_losses = [o \in Objs |-> <<>>]
  /\ qf_losses = [o \in Objs |-> <<>>]
  /\ logger = [o \in Objs |-> NoLog]
  /\ pc = "idle"
  /\ self = 1
  /\ max_step \in (0 - 1)..MaxEpisode
  /\ step_number = 0
  /\ done = FALSE
  /\ action = NoAction
  /\ action_src = "none"
  /\ envKind \in EnvKinds
  /\ envSteps = 0
  /\ ret = 0 - 1
  /\ trainEnvSteps = [a \in AgentIds |-> 0]
  /\ clock = 0

Step(ids, dflts) ==
  \/ \E a \in ids, dflt \in dflts : Construct(a, dflt)
  \/ \E a \in ids, b \in BOOLEAN : SetEvalMode(a, b)
  \/ \E a \in ids : RunBegin(a)
  \/ RunStep
  \/ TrainModel
  \/ RunStepEnd
  \/ RunReturn

\* run_mujoco.main builds one agent, with the default loss lists and logger,
\* and drives it.
Next == Step({1}, {TRUE})

Spec == Init /\ [][Next]_vars

\* run() is a synchronous call: once begun, its loop keeps going.
LiveSpec == Spec /\ WF_vars(RunStep) /\ WF_vars(TrainModel) /\ WF_vars(RunStepEnd)
                 /\ WF_vars(RunReturn)

\* A process that builds two agents from the same call site, each with the
\* default loss lists and logger or with ones of its own.
NextTwo == Step(AgentIds, BOOLEAN)

TwoSpec == Init /\ [][NextTwo]_vars

\* ======================= the claims =======================

Running == pc # "idle"

Returned == pc = "idle" /\ ret >= 0

\* C1 as stated: for EVERY max_step, when the environment returns done on the
\* first step, run makes exactly one env.step call and returns 1.
C1_Original ==
  (Returned /\ envKind = "done_first") => (ret = 1 /\ envSteps = 1)

\* C1, amended: for every max_step other than 0 (negative ones included), when the
\* environment returns done on the first step, run makes exactly one env.step
\* call and returns step_number = 1, in training and in evaluation mode.
C1_DoneFirst ==
  (Returned /\ envKind = "done_first" /\ max_step # 0) => (ret = 1 /\ envSteps = 1)

C1_Witness ==
  /\ Returned /\ envKind = "done_first" /\ max_step = 2
  /\ ret = 1 /\ envSteps = 1 /\ eval_mode[self]

\* C2 as stated, for EVERY max_step: in an environment that never returns done
\* the env steps of an episode never exceed max_step (a run that is past its
\* budget can no longer stop at exactly max_step) and run returns max_step.
C2_Original ==
  envKind = "never_done" =>
    /\ Running => envSteps <= max_step
    /\ Returned => (ret = max_step /\ envSteps = max_step)

\* C2, amended: for every max_step >= 0, in an environment that never returns
\* done, a run that has begun eventually returns, and it returns
\* step_number = max_step after exactly max_step env.step calls.
C2_StepBudget ==
  /\ [](( Returned /\ envKind = "never_done" /\ max_step >= 0)
          => (ret = max_step /\ envSteps = max_step))
  /\ ((Running /\ envKind = "never_done" /\ max_step >= 0)
        ~> (Returned /\ ret = max_step /\ envSteps = max_step))

C2_Witness ==
  /\ Returned /\ envKind = "never_done" /\ max_step = 2
  /\ ret = 2 /\ envSteps = 2

\* C3 as stated: in training AND evaluation episodes, every env step taken while
\* steps <= start_steps uses the action of the environment's sampler.
C3_Original ==
  (action_src # "none" /\ steps[self] <= kwargs.start_steps) => action_src = "sample"

\* C3, amended: every env step taken in TRAINING mode while the step counter
\* (already incremented for that step) is <= start_steps uses the action of the
\* environment's sampler, never select_action's.
C3_Warmup ==
  (action_src \in {"sample", "select_action"} /\ steps[self] <= kwargs.start_steps)
    => action_src = "sample"

C3_Witness ==
  /\ action_src = "sample" /\ steps[self] = kwargs.start_steps
  /\ trainEnvSteps[self] >= 1 /\ pc \in {"tail", "train"}

\* C4: every action passed to env.step lies in [-act_limit, act_limit], in
\* training mode and in evaluation mode.
C4_ActionInRange ==
  action_src # "none" =>
    (0 - kwargs.act_limit <= action /\ action <= kwargs.act_limit)

\* C5: no step of an episode run with eval_mode set changes the step counter,
\* the replay buffer, the networks or the loss histories, and none of them
\* enters train_model.
C5_EvalFrame ==
  [][(Running /\ eval_mode[self]) =>
       /\ steps' = steps
       /\ replay_buffer' = replay_buffer
       /\ nets' = nets
       /\ policy_losses' = policy_losses
       /\ qf_losses' = qf_losses
       /\ pc' # "train"]_vars

C5_Witness ==
  /\ pc = "tail" /\ eval_mode[self] /\ action_src = "policy"
  /\ steps[self] > kwargs.batch_size
  /\ replay_buffer[self].size >= 1

\* C6: an agent's step counter is its initial value plus the number of env steps
\* it took in training mode, after any interleaving of training and evaluation
\* episodes.
C6_StepCounter ==
  \A a \in constructed : steps[a] = kwargs.steps + trainEnvSteps[a]

C6_Witness ==
  /\ kwargs.steps = 1
  /\ trainEnvSteps[self] >= 1
  /\ clock > trainEnvSteps[1] + trainEnvSteps[2]
  /\ Returned

\* C7: a Learning Step leaves the replay buffer, the step counter, the eval flag
\* and the logger as they are; of the agent's state it changes only the networks,
\* and each of its two loss histories grows by exactly one entry.
C7_TrainFrame ==
  [][pc = "train" =>
       /\ replay_buffer' = replay_buffer
       /\ steps' = steps
       /\ eval_mode' = eval_mode
       /\ logger' = logger
       /\ \A a \in AgentIds \ {self} : nets'[a] = nets[a]
       /\ Len(policy_losses'[ListOf(self)]) = Len(policy_losses[ListOf(self)]) + 1
       /\ Len(qf_losses'[ListOf(self)]) = Len(qf_losses[ListOf(self)]) + 1]_vars

C7_Witness ==
  /\ pc = "tail" /\ action_src \in {"sample", "select_action"}
  /\ Len(nets[self].params["qf"]) >= 1
  /\ Len(policy_losses[ListOf(self)]) >= 1
  /\ replay_buffer[self].size >= 1

\* C8: every gradient the critic's optimizer has applied holds the critic loss
\* only, in the first and in every later Learning Step, and the policy update of
\* a Learning Step leaves the critic's parameters as the critic update left them.
C8_CriticGradient ==
  /\ \A a \in AgentIds : \A i \in DOMAIN nets[a].params["qf"] :
        nets[a].params["qf"][i] = {"qf_loss"}
  /\ pc = "train" =>
        LET n1 == UpdateQf(nets[self])
        IN  UpdatePolicy(n1).params["qf"] = n1.params["qf"]

C8_Witness ==
  \E a \in constructed :
    /\ Len(nets[a].params["qf"]) >= 2
    /\ "policy_loss" \in nets[a].grad["qf"]

\* C9: whenever run invokes train_model the replay buffer holds more than
\* batch_size experiences.
C9_BufferExceedsBatch ==
  pc = "train" => replay_buffer[self].size > kwargs.batch_size

\* C10: the loss histories and the logger of an agent hold only what that agent
\* put there: no Learning Step or episode of another instance has written to
\* them, and a new agent's histories are empty.
C10_Exclusive ==
  \A a \in constructed :
    /\ \A i \in DOMAIN policy_losses[ListOf(a)] : policy_losses[ListOf(a)][i] = a
    /\ \A i \in DOMAIN qf_losses[ListOf(a)] : qf_losses[ListOf(a)][i] = a
    /\ logger[ListOf(a)].by \in {0, a}
====
